---- MODULE Spec2Model ----
(***************************************************************************)
(* Model of liturgia_messa_builder.py: the liturgical calendar utilities   *)
(* (pasqua, first_sunday_of_advent, build_sunday_map, get_tempo_info,      *)
(* liturgical_year_letter), the hymn selection loop (suggerisci_canti)     *)
(* and build_mass.                                                         *)
(*                                                                         *)
(* A datetime is modelled by its proleptic Gregorian ordinal (the value of *)
(* datetime.toordinal()); every datetime of the program is at midnight.    *)
(* A text is a sequence of words, a title a sequence of characters.        *)
(***************************************************************************)
EXTENDS Integers, Sequences, FiniteSets, TLC

VARIABLES call, arg, ret,
          df, readings, season, idx, picks, used

vars == <<call, arg, ret, df, readings, season, idx, picks, used>>

(***************************************************************************)
(* Bounds of the model.                                                    *)
(***************************************************************************)
\* the functions of a year are applied to every year of FirstYear..LastYear
FirstYear == 1583
LastYear == 2300
\* the functions of a date are applied to every day of the years
\* MinYear..MaxYear
MinYear == 2021
MaxYear == 2026
\* a repertoire holds at most MaxCanti hymns
MaxCanti == 3

Years == FirstYear..LastYear

(***************************************************************************)
(* datetime / timedelta arithmetic (the datetime module, as the program    *)
(* uses it).                                                               *)
(***************************************************************************)
is_leap(y) == (y % 4 = 0) /\ ((y % 100 # 0) \/ (y % 400 = 0))

days_before_year(y) ==
    LET p == y - 1 IN p * 365 + (p \div 4) - (p \div 100) + (p \div 400)

days_in_month(y, m) ==
    IF m = 2 THEN (IF is_leap(y) THEN 29 ELSE 28)
    ELSE IF m \in {4, 6, 9, 11} THEN 30 ELSE 31

days_before_month(y, m) ==
    <<0, 31, 59, 90, 120, 151, 181, 212, 243, 273, 304, 334>>[m]
      + (IF m > 2 /\ is_leap(y) THEN 1 ELSE 0)

\* datetime(y, m, d): the ordinal of the date; 0 stands for the ValueError
\* datetime raises on a month or a day out of range
datetime(y, m, d) ==
    IF m \in 1..12 /\ d >= 1 /\ d <= days_in_month(y, m)
    THEN days_before_year(y) + days_before_month(y, m) + d
    ELSE 0

\* date.year
year_of(n) ==
    LET n0   == n - 1
        n400 == n0 \div 146097
        r400 == n0 % 146097
        n100 == r400 \div 36524
        r100 == r400 % 36524
        n4   == r100 \div 1461
        r4   == r100 % 1461
        n1   == r4 \div 365
        y    == n400 * 400 + 1 + n100 * 100 + n4 * 4 + n1
    IN  IF n1 = 4 \/ n100 = 4 THEN y - 1 ELSE y

\* date.weekday(): Monday is 0, Sunday is 6
weekday(n) == (n + 6) % 7

(***************************************************************************)
(* Calendar / liturgical year utilities.                                   *)
(***************************************************************************)
\* pasqua without the correction term m
pasqua_without_m(year) ==
    LET a == year % 19
        b == year \div 100
        c == year % 100
        d == b \div 4
        e == b % 4
        f == (b + 8) \div 25
        g == (b - f + 1) \div 3
        h == (19 * a + b - d - g + 15) % 30
        i == c \div 4
        k == c % 4
        l == (32 + 2 * e + 2 * i - h - k) % 7
        month == (h + l + 114) \div 31
        day == ((h + l + 114) % 31) + 1
    IN  datetime(year, month, day)

pasqua(year) ==
    LET a == year % 19
        b == year \div 100
        c == year % 100
        d == b \div 4
        e == b % 4
        f == (b + 8) \div 25
        g == (b - f + 1) \div 3
        h == (19 * a + b - d - g + 15) % 30
        i == c \div 4
        k == c % 4
        l == (32 + 2 * e + 2 * i - h - k) % 7
        m == (a + 11 * h + 22 * l) \div 451
        month == (h + l - 7 * m + 114) \div 31
        day == ((h + l - 7 * m + 114) % 31) + 1
    IN  datetime(year, month, day)

sunday_before(date) == date - ((weekday(date) + 1) % 7)

first_sunday_of_advent(year) ==
    LET christmas == datetime(year, 12, 25)
        offset == IF weekday(christmas) = 6 THEN 7 ELSE weekday(christmas)
        fourth == christmas - offset
    IN  fourth - 3 * 7

baptism_sunday(year) == sunday_before(datetime(year, 1, 13))

Letters == <<"A", "B", "C">>

liturgical_year_letter(date) ==
    LET first_adv == first_sunday_of_advent(year_of(date))
        ref_year == IF date >= first_adv THEN year_of(date) ELSE year_of(date) - 1
    IN  Letters[(ref_year % 3) + 1]

\* The second component of a map value is an integer or a label (Any).
IntNum(n) == [isstr |-> FALSE, n |-> n, s |-> ""]
StrNum(s) == [isstr |-> TRUE, n |-> 0, s |-> s]

\* m[k] = v on a dict
DictSet(m, k, v) == [x \in (DOMAIN m) \cup {k} |-> IF x = k THEN v ELSE m[x]]

\* a | b on dicts: the entries of b win
DictMerge(a, b) ==
    [x \in (DOMAIN a) \cup (DOMAIN b) |-> IF x \in DOMAIN b THEN b[x] ELSE a[x]]

EmptyDict == [x \in {} |-> <<>>]

\* The assignments m[k] = v of the builder, in the order they are made, are
\* kept as a sequence of <<k, v>>; the dict they leave maps a key to the
\* value of its last assignment.
DictOf(writes) ==
    [x \in {writes[i][1] : i \in 1..Len(writes)} |->
        LET at == {i \in 1..Len(writes) : writes[i][1] = x}
            last == CHOOSE i \in at : \A j \in at : j <= i
        IN  writes[last][2]]

\* for i in range(4): m[first_adv + timedelta(weeks=i)] = ("Avvento", i + 1)
RECURSIVE AvventoLoop(_, _)
AvventoLoop(first_adv, i) ==
    IF i >= 4 THEN <<>>
    ELSE <<<<first_adv + 7 * i, <<"Avvento", IntNum(i + 1)>>>>>>
         \o AvventoLoop(first_adv, i + 1)

\* while cur < ash_wed: m[cur] = ("Tempo Ordinario", counter); ...
\* the result is the assignments and the counter the loop leaves
RECURSIVE OrdinarioILoop(_, _, _)
OrdinarioILoop(counter, cur, ash_wed) ==
    IF cur < ash_wed
    THEN LET rest == OrdinarioILoop(counter + 1, cur + 7, ash_wed)
         IN  [w |-> <<<<cur, <<"Tempo Ordinario", IntNum(counter)>>>>>> \o rest.w,
              counter |-> rest.counter]
    ELSE [w |-> <<>>, counter |-> counter]

\* for i in range(1, 6): m[cur] = ("Quaresima", i); cur += one week
RECURSIVE QuaresimaLoop(_, _)
QuaresimaLoop(cur, i) ==
    IF i >= 6 THEN <<>>
    ELSE <<<<cur, <<"Quaresima", IntNum(i)>>>>>> \o QuaresimaLoop(cur + 7, i + 1)

\* while cur <= pentecost: m[cur] = ("Tempo di Pasqua", easter_no); ...
RECURSIVE PasquaLoop(_, _, _)
PasquaLoop(cur, easter_no, pentecost) ==
    IF cur <= pentecost
    THEN <<<<cur, <<"Tempo di Pasqua", IntNum(easter_no)>>>>>>
         \o PasquaLoop(cur + 7, easter_no + 1, pentecost)
    ELSE <<>>

\* while cur <= christ_king: m[cur] = ("Tempo Ordinario", counter); ...
RECURSIVE OrdinarioIILoop(_, _, _)
OrdinarioIILoop(counter, cur, christ_king) ==
    IF cur <= christ_king
    THEN <<<<cur, <<"Tempo Ordinario", IntNum(counter)>>>>>>
         \o OrdinarioIILoop(counter + 1, cur + 7, christ_king)
    ELSE <<>>

\* the counter resumed without the skip
OrdinarioNoSkip(counter) == counter

\* the skip of the Ordinary Time counter after Pentecost: counter += 2
OrdinarioSkip(counter) == counter + 2

\* the date the Ordinary Time II loop runs to
christ_king_of(year) == first_sunday_of_advent(year + 1) - 7

build_sunday_map(year) ==
    LET p == pasqua(year)
        ash_wed == p - 46
        palm == p - 7
        pentecost == p + 49
        first_adv == first_sunday_of_advent(year)
        o1 == OrdinarioILoop(2, baptism_sunday(year) + 7, ash_wed)
        christ_king == christ_king_of(year)
    IN  DictOf(AvventoLoop(first_adv, 0)
               \o o1.w
               \o QuaresimaLoop(ash_wed + (6 - weekday(ash_wed)), 1)
               \o <<<<palm, <<"Quaresima", StrNum("Domenica delle Palme")>>>>>>
               \o <<<<p, <<"Tempo di Pasqua", StrNum("Pasqua")>>>>>>
               \o PasquaLoop(p + 7, 2, pentecost)
               \o OrdinarioIILoop(OrdinarioSkip(o1.counter), pentecost + 7, christ_king)
               \o <<<<christ_king, <<"Tempo Ordinario", StrNum("Cristo Re")>>>>>>)

\* if sunday not in mapping: mapping |= build_sunday_map(year - 1) | build_sunday_map(year + 1)
MergeIfMissing(mapping, sunday) ==
    IF sunday \notin DOMAIN mapping
    THEN DictMerge(mapping, DictMerge(build_sunday_map(year_of(sunday) - 1),
                                      build_sunday_map(year_of(sunday) + 1)))
    ELSE mapping

\* mapping.get(sunday, ("Tempo Ordinario", 0))
DictGet(mapping, k, default) == IF k \in DOMAIN mapping THEN mapping[k] ELSE default

\* (season, num, letter) of a looked up (season, num)
TempoInfo(v, date) == <<v[1], v[2], liturgical_year_letter(date)>>

get_tempo_info(date) ==
    TempoInfo(DictGet(MergeIfMissing(build_sunday_map(year_of(sunday_before(date))),
                                     sunday_before(date)),
                      sunday_before(date), <<"Tempo Ordinario", IntNum(0)>>),
              date)

(***************************************************************************)
(* Strings.  str.lower() and str.strip() on the strings of the model: the  *)
(* raw tags of a repertoire and the season names.                          *)
(***************************************************************************)
lower(s) ==
    CASE s = "Ingresso" -> "ingresso"
      [] s = " Offertorio" -> " offertorio"
      [] s = "Offertorio" -> "offertorio"
      [] s = "Qualsiasi" -> "qualsiasi"
      [] s = "Avvento" -> "avvento"
      [] s = " Quaresima" -> " quaresima"
      [] s = "Quaresima" -> "quaresima"
      [] s = "Tempo Ordinario" -> "tempo ordinario"
      [] s = "Tempo di Pasqua" -> "tempo di pasqua"
      [] OTHER -> s

strip(s) ==
    CASE s = " Offertorio" -> "Offertorio"
      [] s = " offertorio" -> "offertorio"
      [] s = "finale " -> "finale"
      [] s = " Quaresima" -> "Quaresima"
      [] s = " quaresima" -> "quaresima"
      [] OTHER -> s

\* characters of a title; RightQuote is the one character U+2019
RightQuote == "U+2019"

lower_char(c) ==
    CASE c = "A" -> "a"
      [] c = "I" -> "i"
      [] c = "P" -> "p"
      [] OTHER -> c

IsSpace(c) == c \in {" ", "\t", "\n"}

RECURSIVE lstrip_chars(_)
lstrip_chars(s) ==
    IF s # <<>> /\ IsSpace(Head(s)) THEN lstrip_chars(Tail(s)) ELSE s

RECURSIVE rstrip_chars(_)
rstrip_chars(s) ==
    IF s # <<>> /\ IsSpace(s[Len(s)]) THEN rstrip_chars(SubSeq(s, 1, Len(s) - 1)) ELSE s

\* re.sub(r"\s+", "-", s): every run of whitespace becomes one hyphen
RECURSIVE sub_spaces(_)
sub_spaces(s) ==
    IF s = <<>> THEN <<>>
    ELSE IF IsSpace(Head(s)) THEN <<"-">> \o sub_spaces(lstrip_chars(s))
    ELSE <<Head(s)>> \o sub_spaces(Tail(s))

\* _slug(title); unicodedata.normalize("NFC", .) leaves the characters of
\* the model, all of them already composed, as they are
_slug(title) ==
    LET lowered == [i \in 1..Len(title) |-> lower_char(title[i])]
        removed == SelectSeq(lowered, LAMBDA c : c \notin {"'", RightQuote, ","})
    IN  sub_spaces(rstrip_chars(lstrip_chars(removed)))

(***************************************************************************)
(* The sentence embedding model and the cosine similarity.  model.encode   *)
(* is modelled by the word counts of the text over a vocabulary of two     *)
(* words; a similarity is kept as the fraction num / den of its square     *)
(* (every component is >= 0, so the order of the squares is the order of   *)
(* the similarities).                                                      *)
(***************************************************************************)
Count(words, w) == Len(SelectSeq(words, LAMBDA x : x = w))

encode(words) == <<Count(words, "luce"), Count(words, "pane")>>

IsMarkup(tok) == tok \in {"<br>", "<b>", "</b>"}

\* BeautifulSoup(t, "html.parser").get_text()
get_text(t) == SelectSeq(t, LAMBDA tok : ~IsMarkup(tok))

Dot(u, v) == u[1] * v[1] + u[2] * v[2]

\* cosine_similarity([e], [ref])[0][0]; a zero vector has similarity 0
cosine_similarity(e, ref) ==
    IF Dot(e, e) = 0 \/ Dot(ref, ref) = 0 THEN [num |-> 0, den |-> 1]
    ELSE [num |-> Dot(e, ref) * Dot(e, ref), den |-> Dot(e, e) * Dot(ref, ref)]

SimGE(p, q) == p.num * q.den >= q.num * p.den

(***************************************************************************)
(* The repertoire (canti.json) and its data frame.                         *)
(***************************************************************************)
\* a missing (null) string of the repertoire
None == "<None>"

\* df[col].fillna(v)
fillna(x, v) == IF x = None THEN v ELSE x

\* s.split(",") of a tipologia kept as the sequence of its parts; the empty
\* string (a null tipologia after fillna("")) splits into one empty part
split_comma(parts) == IF parts = <<>> THEN <<"">> ELSE parts

\* the rows one hymn explodes into, one per part of its tipologia
ExplodeCanto(c) ==
    LET momenti == split_comma(c.tipologia)
    IN  [i \in 1..Len(momenti) |->
            [titolo |-> c.titolo,
             momento |-> lower(strip(momenti[i])),
             tempo_liturgico |-> lower(strip(fillna(c.tempo, "qualsiasi"))),
             embedding |-> encode(get_text(c.testo))]]

RECURSIVE build_canti_df(_)
build_canti_df(canti) ==
    IF canti = <<>> THEN <<>>
    ELSE ExplodeCanto(Head(canti)) \o build_canti_df(Tail(canti))

(***************************************************************************)
(* suggerisci_canti.                                                       *)
(***************************************************************************)
Momenti == <<"ingresso", "offertorio", "comunione", "finale">>

Repeat3(t) == <<t, t, t>>

\* the list base of one moment: the antiphon three times, then the readings
\* that are not empty
Base(r, momento) ==
    (IF momento = "ingresso" /\ r.antifona # <<>> THEN Repeat3(r.antifona) ELSE <<>>)
    \o (IF momento = "comunione" /\ r.antifona_comunione # <<>>
        THEN Repeat3(r.antifona_comunione) ELSE <<>>)
    \o SelectSeq(<<r.prima_lettura, r.salmo, r.seconda_lettura, r.vangelo>>,
                 LAMBDA t : t # <<>>)

\* " ".join(base)
RECURSIVE Join(_)
Join(base) == IF base = <<>> THEN <<>> ELSE Head(base) \o Join(Tail(base))

\* ref_emb; <<>> stands for None
RefEmb(r, momento) ==
    IF Base(r, momento) # <<>> THEN encode(Join(Base(r, momento))) ELSE <<>>

\* df[df["momento"] == momento]
MomentoRows(d, momento) == SelectSeq(d, LAMBDA row : row.momento = momento)

TempoRows(d, tempo) == SelectSeq(d, LAMBDA row : row.tempo_liturgico = tempo)

\* the rows of the season only, without the fallback
SeasonRowsOnly(df_m, s) == TempoRows(df_m, lower(s))

\* the rows of the season, or the rows tagged "qualsiasi" when there is none
SeasonRows(df_m, s) ==
    IF TempoRows(df_m, lower(s)) = <<>> THEN TempoRows(df_m, "qualsiasi")
    ELSE TempoRows(df_m, lower(s))

\* the selection with the used titles left in
UsedKept(sel, u) == sel

\* sel[~sel["titolo"].isin(used)]
NotUsed(sel, u) == SelectSeq(sel, LAMBDA row : row.titolo \notin u)

Candidates(d, s, momento, u) == NotUsed(SeasonRows(MomentoRows(d, momento), s), u)

\* the rows sort_values("sim", ascending=False).head(top_n).iloc[0] may be:
\* the order of rows of equal similarity is not fixed by the sort
TopRows(sel, ref_emb) ==
    {i \in 1..Len(sel) :
        \A j \in 1..Len(sel) :
            SimGE(cosine_similarity(sel[i].embedding, ref_emb),
                  cosine_similarity(sel[j].embedding, ref_emb))}

\* the last row instead of the first
LastRow(sel) == {Len(sel)}

\* without a reference embedding the rows keep the order of the repertoire:
\* sel.iloc[0] is the first of them
FirstRow(sel) == {1}

\* the titles one pass of the loop may select; none when the pass ends at
\* the continue
StepChoices(d, r, s, momento, u) ==
    LET sel == Candidates(d, s, momento, u)
        ref_emb == RefEmb(r, momento)
    IN  IF sel = <<>> THEN {}
        ELSE IF ref_emb # <<>> THEN {sel[i].titolo : i \in TopRows(sel, ref_emb)}
        ELSE {sel[i].titolo : i \in FirstRow(sel)}

\* the link of a pick: its slug and its title
Html(titolo) == [slug |-> _slug(titolo), titolo |-> titolo]

RECURSIVE SuggerisciFrom(_, _, _, _, _, _)
SuggerisciFrom(d, r, s, i, p, u) ==
    IF i > Len(Momenti) THEN {p}
    ELSE LET ch == StepChoices(d, r, s, Momenti[i], u)
         IN  IF ch = {} THEN SuggerisciFrom(d, r, s, i + 1, p, u)
             ELSE UNION {SuggerisciFrom(d, r, s, i + 1,
                                        DictSet(p, Momenti[i], Html(t)), u \cup {t})
                         : t \in ch}

\* the dicts suggerisci_canti(readings, season) may return
suggerisci_canti(d, r, s) == SuggerisciFrom(d, r, s, 1, EmptyDict, {})

(***************************************************************************)
(* build_mass.                                                             *)
(***************************************************************************)
DigitChars == <<"0", "1", "2", "3", "4", "5", "6", "7", "8", "9">>

RECURSIVE digits(_)
digits(n) ==
    IF n < 10 THEN <<DigitChars[n + 1]>>
    ELSE digits(n \div 10) \o <<DigitChars[(n % 10) + 1]>>

\* f"{num:02d}" of an integer >= 0
format_02d(n) == IF n < 10 THEN <<"0">> \o digits(n) ELSE digits(n)

\* the characters of a label of the map
label_chars(s) ==
    CASE s = "Pasqua" -> <<"P", "a", "s", "q", "u", "a">>
      [] s = "Cristo Re" -> <<"C", "r", "i", "s", "t", "o", " ", "R", "e">>
      [] s = "Domenica delle Palme" ->
            <<"D", "o", "m", "e", "n", "i", "c", "a", " ", "d", "e", "l", "l", "e",
              " ", "P", "a", "l", "m", "e">>

\* num_str = str(num) if isinstance(num, str) else f"{num:02d}"
num_str(num) == IF num.isstr THEN label_chars(num.s) ELSE format_02d(num.n)

IsDigit(c) == \E i \in 1..10 : DigitChars[i] = c

DigitValue(c) == (CHOOSE i \in 1..10 : DigitChars[i] = c) - 1

RECURSIVE digits_value(_, _)
digits_value(chars, acc) ==
    IF chars = <<>> THEN acc
    ELSE digits_value(Tail(chars), acc * 10 + DigitValue(Head(chars)))

\* int(s) of a string without sign; -1 stands for the ValueError int raises
\* on a string that is not a number
int_of(chars) ==
    IF chars # <<>> /\ \A i \in 1..Len(chars) : IsDigit(chars[i])
    THEN digits_value(chars, 0)
    ELSE -1

RomanVal == <<1000, 900, 500, 400, 100, 90, 50, 40, 10, 9, 5, 4, 1>>
RomanSyms == <<"M", "CM", "D", "CD", "C", "XC", "L", "XL", "X", "IX", "V", "IV", "I">>

RECURSIVE RepeatSym(_, _)
RepeatSym(sym, k) == IF k <= 0 THEN <<>> ELSE <<sym>> \o RepeatSym(sym, k - 1)

RECURSIVE ToRomanLoop(_, _, _)
ToRomanLoop(n, i, roman) ==
    IF n > 0
    THEN ToRomanLoop(n - (n \div RomanVal[i]) * RomanVal[i], i + 1,
                     roman \o RepeatSym(RomanSyms[i], n \div RomanVal[i]))
    ELSE roman

to_roman(n) == ToRomanLoop(n, 1, <<>>)

\* the folder of the psalm link: the first of the four names the season holds
TempoFolder(s) ==
    CASE s = "Quaresima" -> "quaresima"
      [] s = "Tempo Ordinario" -> "ordinario"
      [] s = "Tempo di Pasqua" -> "pasqua"
      [] s = "Avvento" -> "avvento"
      [] OTHER -> ""

HymnOf(hymns, momento) ==
    IF momento \in DOMAIN hymns THEN <<hymns[momento]>> ELSE <<>>

\* build_mass(date, save=True) once get_tempo_info, scrape_readings and
\* suggerisci_canti have returned info, r and hymns: the exception it raises
\* ("" when it returns) and the record it returns and saves
build_mass(date, info, r, hymns) ==
    LET s == info[1]
        num == info[2]
        year_letter == info[3]
        n == int_of(num_str(num))
    IN  IF n < 0
        THEN [exc |-> "ValueError", saved |-> FALSE, mass |-> <<>>]
        ELSE [exc |-> "", saved |-> TRUE,
              mass |-> <<[title |-> <<to_roman(n), " Domenica del ", s,
                                    " - Anno ", year_letter>>,
                        numero |-> num,
                        anno |-> year_letter,
                        antifona_ingresso |-> r.antifona,
                        canto_ingresso |-> HymnOf(hymns, "ingresso"),
                        prima_lettura_testo |-> r.prima_lettura,
                        salmo_link |-> <<TempoFolder(s), year_letter, num>>,
                        salmo_testo |-> r.salmo,
                        seconda_lettura_testo |-> r.seconda_lettura,
                        versetto_vangelo |-> r.versetto_vangelo,
                        vangelo |-> r.vangelo,
                        canto_offertorio |-> HymnOf(hymns, "offertorio"),
                        canto_comunione |-> HymnOf(hymns, "comunione"),
                        antifona_alla_comunione |-> r.antifona_comunione,
                        canto_finale |-> HymnOf(hymns, "finale")]>>]

(***************************************************************************)
(* Inputs.                                                                 *)
(***************************************************************************)
\* every day of the years MinYear..MaxYear
Dates == datetime(MinYear, 1, 1)..datetime(MaxYear, 12, 31)

Seasons == {"Avvento", "Quaresima", "Tempo di Pasqua", "Tempo Ordinario"}

\* what scrape_readings may return: every field is empty or holds a text
ReadingsBundles ==
    [antifona : {<<>>, <<"luce">>},
     antifona_comunione : {<<>>, <<"pane">>},
     versetto_vangelo : {<<>>},
     prima_lettura : {<<>>, <<"luce", "pane">>},
     salmo : {<<>>},
     seconda_lettura : {<<>>},
     vangelo : {<<>>, <<"pane">>}]

Ave == <<"A", "v", "e">>
AveComma == <<"a", "v", "e", ",">>
IlPane == <<"I", "l", " ", " ", "P", "a", "n", "e">>

\* the hymns a repertoire is made of
CantiUniverse ==
    { [titolo |-> Ave, tipologia |-> <<"Ingresso", " Offertorio">>,
       tempo |-> None, testo |-> <<"luce">>],
      [titolo |-> IlPane, tipologia |-> <<"comunione", "finale ">>,
       tempo |-> "Qualsiasi", testo |-> <<"pane", "<br>", "pane">>],
      [titolo |-> AveComma, tipologia |-> <<"ingresso", "comunione">>,
       tempo |-> "Avvento", testo |-> <<"<b>", "luce", "</b>", "pane">>],
      [titolo |-> Ave, tipologia |-> <<" offertorio", "finale">>,
       tempo |-> " Quaresima", testo |-> <<>>],
      [titolo |-> IlPane, tipologia |-> <<"ingresso", "offertorio", "comunione", "finale">>,
       tempo |-> None, testo |-> <<"pane">>],
      [titolo |-> AveComma, tipologia |-> <<>>,
       tempo |-> "qualsiasi", testo |-> <<"luce", "luce", "pane">>] }

Repertoires == UNION {[1..n -> CantiUniverse] : n \in 0..MaxCanti}

\* the repertoire of the calendar specification
Repertorio ==
    << [titolo |-> Ave, tipologia |-> <<"Ingresso", " Offertorio">>,
        tempo |-> None, testo |-> <<"luce">>],
       [titolo |-> IlPane, tipologia |-> <<"comunione", "finale ">>,
        tempo |-> "Qualsiasi", testo |-> <<"pane", "<br>", "pane">>] >>

(***************************************************************************)
(* The calendar specification: the functions are called one at a time, in  *)
(* any order; the state holds the call, its argument and what it returned  *)
(* until the caller takes the result.                                      *)
(***************************************************************************)
\* What a call returned: one field per kind of result, the others empty.
\*   n: a datetime (pasqua, first_sunday_of_advent)    map: a Sunday map
\*   info: (season, num, letter)    letter: a cycle letter
\*   exc, saved, mass: the exception build_mass raised, whether it wrote
\*   its file, and the record it returned    picks: the dict of picks
RetNone ==
    [n |-> 0, map |-> EmptyDict, info |-> <<>>, letter |-> "",
     exc |-> "", saved |-> FALSE, mass |-> <<>>, picks |-> EmptyDict]

RetMass(b) == [RetNone EXCEPT !.exc = b.exc, !.saved = b.saved, !.mass = b.mass]

Init ==
    /\ call = "none"
    /\ arg = 0
    /\ ret = RetNone
    /\ df = build_canti_df(Repertorio)
    /\ readings = <<>>
    /\ season = ""
    /\ idx = 0
    /\ picks = EmptyDict
    /\ used = {}

CallPasqua ==
    /\ call = "none"
    /\ \E year \in Years :
          /\ call' = "pasqua"
          /\ arg' = year
          /\ ret' = [RetNone EXCEPT !.n = pasqua(year)]
    /\ UNCHANGED <<df, readings, season, idx, picks, used>>

CallFirstSundayOfAdvent ==
    /\ call = "none"
    /\ \E year \in Years :
          /\ call' = "first_sunday_of_advent"
          /\ arg' = year
          /\ ret' = [RetNone EXCEPT !.n = first_sunday_of_advent(year)]
    /\ UNCHANGED <<df, readings, season, idx, picks, used>>

CallBuildSundayMap ==
    /\ call = "none"
    /\ \E year \in Years :
          /\ call' = "build_sunday_map"
          /\ arg' = year
          /\ ret' = [RetNone EXCEPT !.map = build_sunday_map(year)]
    /\ UNCHANGED <<df, readings, season, idx, picks, used>>

CallLiturgicalYearLetter ==
    /\ call = "none"
    /\ \E date \in Dates :
          /\ call' = "liturgical_year_letter"
          /\ arg' = date
          /\ ret' = [RetNone EXCEPT !.letter = liturgical_year_letter(date)]
    /\ UNCHANGED <<df, readings, season, idx, picks, used>>

CallGetTempoInfo ==
    /\ call = "none"
    /\ \E date \in Dates :
          /\ call' = "get_tempo_info"
          /\ arg' = date
          /\ ret' = [RetNone EXCEPT !.info = get_tempo_info(date)]
    /\ UNCHANGED <<df, readings, season, idx, picks, used>>

CallBuildMass ==
    /\ call = "none"
    /\ \E date \in Dates :
          \E info \in {get_tempo_info(date)} :
              \E r \in ReadingsBundles :
                 \E hymns \in suggerisci_canti(df, r, info[1]) :
                    /\ call' = "build_mass"
                    /\ arg' = date
                    /\ ret' = RetMass(build_mass(date, info, r, hymns))
    /\ UNCHANGED <<df, readings, season, idx, picks, used>>

\* the caller takes the result
Return ==
    /\ call # "none"
    /\ call' = "none"
    /\ arg' = 0
    /\ ret' = RetNone
    /\ UNCHANGED <<df, readings, season, idx, picks, used>>

Next ==
    \/ Return
    \/ CallPasqua
    \/ CallFirstSundayOfAdvent
    \/ CallBuildSundayMap
    \/ CallLiturgicalYearLetter
    \/ CallGetTempoInfo
    \/ CallBuildMass

Spec == Init /\ [][Next]_vars

(***************************************************************************)
(* The hymn selection specification: one call of suggerisci_canti on a     *)
(* repertoire, a readings bundle and a season, one pass of its loop at a   *)
(* time.  idx is the position in Momenti of the pass to come.              *)
(***************************************************************************)
InitCanti ==
    /\ call = "none"
    /\ arg = 0
    /\ ret = RetNone
    /\ \E c \in Repertoires : df = build_canti_df(c)
    /\ readings \in ReadingsBundles
    /\ season \in Seasons
    /\ idx = 1
    /\ picks = EmptyDict
    /\ used = {}

\* a pass that ends at the continue
SuggerisciSkip ==
    /\ idx \in 1..Len(Momenti)
    /\ StepChoices(df, readings, season, Momenti[idx], used) = {}
    /\ idx' = idx + 1
    /\ UNCHANGED <<call, arg, ret, df, readings, season, picks, used>>

\* a pass that selects a hymn
SuggerisciPick ==
    /\ idx \in 1..Len(Momenti)
    /\ \E t \in StepChoices(df, readings, season, Momenti[idx], used) :
          /\ picks' = DictSet(picks, Momenti[idx], Html(t))
          /\ used' = used \cup {t}
    /\ idx' = idx + 1
    /\ UNCHANGED <<call, arg, ret, df, readings, season>>

\* return picks
SuggerisciReturn ==
    /\ idx = Len(Momenti) + 1
    /\ call = "none"
    /\ call' = "suggerisci_canti"
    /\ ret' = [RetNone EXCEPT !.picks = picks]
    /\ UNCHANGED <<arg, df, readings, season, idx, picks, used>>

NextCanti ==
    \/ SuggerisciSkip
    \/ SuggerisciPick
    \/ SuggerisciReturn

SpecCanti == InitCanti /\ [][NextCanti]_vars

(***************************************************************************)
(* Properties of the calendar functions, checked under Spec.               *)
(***************************************************************************)
\* The First Sunday of Advent of a year by its definition: three weeks
\* before the last Sunday before 25 December.
AdventSunday(year) == sunday_before(datetime(year, 12, 24)) - 21

AdventDates(year) == {first_sunday_of_advent(year) + 7 * i : i \in 0..3}

\* C1: the keys of build_sunday_map(Y) are exactly the Sundays from the First
\* Sunday of Advent of Y-1 up to the day before the First Sunday of Advent
\* of Y.
C1_KeysAreTheSundaysOfTheLiturgicalYear ==
    call = "build_sunday_map" =>
        /\ \A d \in DOMAIN ret.map :
              /\ weekday(d) = 6
              /\ AdventSunday(arg - 1) <= d
              /\ d < AdventSunday(arg)
        /\ \A d \in AdventSunday(arg - 1)..(AdventSunday(arg) - 1) :
              weekday(d) = 6 => d \in DOMAIN ret.map

\* C2: pasqua(Y) is a Sunday of year Y between 22 March and 25 April.
C2_PasquaIsASundayInRange ==
    call = "pasqua" =>
        /\ year_of(ret.n) = arg
        /\ datetime(arg, 3, 22) <= ret.n
        /\ ret.n <= datetime(arg, 4, 25)
        /\ weekday(ret.n) = 6

\* pasqua has returned the earliest and the latest date of the range
C2_Witness ==
    /\ call = "pasqua"
    /\ ret.n \in {datetime(arg, 3, 22), datetime(arg, 4, 25)}

\* C3: first_sunday_of_advent(Y) is a Sunday, and exactly four Sundays from
\* it on come before 25 December of Y.
C3_FirstAdventIsFourthSundayBeforeChristmas ==
    call = "first_sunday_of_advent" =>
        /\ weekday(ret.n) = 6
        /\ ret.n + 21 < datetime(arg, 12, 25)
        /\ ret.n + 28 >= datetime(arg, 12, 25)

\* C4: the finished map of Y holds ("Avvento", 1..4) at the four weekly dates
\* from first_sunday_of_advent(Y) on, and get_tempo_info of such a date
\* returns the season "Avvento".
C4_AdventEntriesKept ==
    /\ call = "build_sunday_map" =>
          \A i \in 0..3 :
             /\ first_sunday_of_advent(arg) + 7 * i \in DOMAIN ret.map
             /\ ret.map[first_sunday_of_advent(arg) + 7 * i] = <<"Avvento", IntNum(i + 1)>>
    /\ (call = "get_tempo_info" /\ arg \in AdventDates(year_of(arg))) =>
          ret.info[1] = "Avvento"

NextLetter(x) == CASE x = "A" -> "B" [] x = "B" -> "C" [] x = "C" -> "A"

\* C5: the letters of two consecutive dates d and d+1 differ exactly when d+1
\* is the First Sunday of Advent of its year, and then the letter advances
\* A -> B -> C -> A.
C5_LetterChangesAtAdventSunday ==
    LET letter == IF call = "get_tempo_info" THEN ret.info[3] ELSE ret.letter
        next == liturgical_year_letter(arg + 1)
    IN  call \in {"liturgical_year_letter", "get_tempo_info"} =>
           /\ (letter # next) <=> (arg + 1 = AdventSunday(year_of(arg + 1)))
           /\ (letter # next) => (next = NextLetter(letter))

\* C9: in build_sunday_map(Y) the Sunday before Ash Wednesday (Easter - 49)
\* holds an Ordinary Time ordinal, and the Sunday after Pentecost
\* (Easter + 56) holds that ordinal plus 3.
C9_OrdinarioResumesAtLastPlusThree ==
    call = "build_sunday_map" =>
        LET p == pasqua(arg)
        IN  /\ (p - 49) \in DOMAIN ret.map
            /\ ret.map[p - 49][1] = "Tempo Ordinario"
            /\ ~ret.map[p - 49][2].isstr
            /\ ret.map[p - 49][2].n >= 2
            /\ (p + 56) \in DOMAIN ret.map
            /\ ret.map[p + 56] = <<"Tempo Ordinario", IntNum(ret.map[p - 49][2].n + 3)>>

\* a map whose Ordinary Time stops at 8 before Lent and resumes at 11
C9_Witness ==
    /\ call = "build_sunday_map"
    /\ ret.map[pasqua(arg) - 49] = <<"Tempo Ordinario", IntNum(8)>>
    /\ ret.map[pasqua(arg) + 56] = <<"Tempo Ordinario", IntNum(11)>>

\* C10: build_mass returns a record with a title for every date, whatever
\* the ordinal get_tempo_info gave, a label included.
C10_BuildMassReturnsATitle ==
    call = "build_mass" =>
        /\ ret.exc = ""
        /\ Len(ret.mass) = 1
        /\ "title" \in DOMAIN ret.mass[1]

(***************************************************************************)
(* Properties of suggerisci_canti, checked under SpecCanti.                *)
(***************************************************************************)
\* the passes of the loop already made
Done == {k \in 1..Len(Momenti) : k < idx}

\* the titles selected before pass k
UsedBefore(k) ==
    {picks[Momenti[j]].titolo : j \in {j \in 1..(k - 1) : Momenti[j] \in DOMAIN picks}}

\* the rows of the data frame tagged with a moment and a season tag
RowsOf(momento, tempo) ==
    {i \in 1..Len(df) : df[i].momento = momento /\ df[i].tempo_liturgico = tempo}

\* the rows tagged "qualsiasi" for the moment of pass k not selected before it
UnusedQualsiasi(k) ==
    {i \in RowsOf(Momenti[k], "qualsiasi") : df[i].titolo \notin UsedBefore(k)}

\* row i ranks first among the rows I for the moment: by similarity to the
\* reference text when there is one, by the order of the repertoire otherwise
RanksFirst(i, I, momento) ==
    IF RefEmb(readings, momento) # <<>>
    THEN \A j \in I :
            SimGE(cosine_similarity(df[i].embedding, RefEmb(readings, momento)),
                  cosine_similarity(df[j].embedding, RefEmb(readings, momento)))
    ELSE \A j \in I : i <= j

\* C6 as stated: when no row matches (moment, season) and some row matches
\* (moment, "qualsiasi"), the moment has a pick, and it is the best ranked of
\* those rows.
C6_FallbackAlwaysPicks ==
    \A k \in Done :
        (RowsOf(Momenti[k], lower(season)) = {} /\ RowsOf(Momenti[k], "qualsiasi") # {}) =>
            /\ Momenti[k] \in DOMAIN picks
            /\ \E i \in RowsOf(Momenti[k], "qualsiasi") :
                  /\ df[i].titolo = picks[Momenti[k]].titolo
                  /\ RanksFirst(i, RowsOf(Momenti[k], "qualsiasi"), Momenti[k])

\* C6 as amended: when no row matches (moment, season) and some row matching
\* (moment, "qualsiasi") has a title not selected for an earlier moment, the
\* moment has a pick, and it is the best ranked of those rows not yet used.
C6_FallbackPicksBestUnused ==
    \A k \in Done :
        (RowsOf(Momenti[k], lower(season)) = {} /\ UnusedQualsiasi(k) # {}) =>
            /\ Momenti[k] \in DOMAIN picks
            /\ \E i \in UnusedQualsiasi(k) :
                  /\ df[i].titolo = picks[Momenti[k]].titolo
                  /\ RanksFirst(i, UnusedQualsiasi(k), Momenti[k])

\* the fallback chose between two unused "qualsiasi" rows of different
\* similarity to the reference text
C6_Witness ==
    \E k \in Done :
        /\ RowsOf(Momenti[k], lower(season)) = {}
        /\ RefEmb(readings, Momenti[k]) # <<>>
        /\ Momenti[k] \in DOMAIN picks
        /\ \E i, j \in UnusedQualsiasi(k) :
              /\ df[i].titolo = picks[Momenti[k]].titolo
              /\ ~SimGE(cosine_similarity(df[j].embedding, RefEmb(readings, Momenti[k])),
                        cosine_similarity(df[i].embedding, RefEmb(readings, Momenti[k])))

\* the rows left for pass k: those of the season, or those tagged
\* "qualsiasi" when the season has none, whose title was not selected before
Remaining(k) ==
    {i \in (IF RowsOf(Momenti[k], lower(season)) = {}
            THEN RowsOf(Momenti[k], "qualsiasi")
            ELSE RowsOf(Momenti[k], lower(season))) :
        df[i].titolo \notin UsedBefore(k)}

\* C7 as stated: a moment whose reference text is empty has no pick.
C7_EmptyReferenceSkips ==
    \A k \in Done :
        Base(readings, Momenti[k]) = <<>> => Momenti[k] \notin DOMAIN picks

\* C7 as amended: a moment whose reference text is empty has no pick when no
\* row is left for it; otherwise its pick is the first row left, in the order
\* of the repertoire, and the title is in the used set.
C7_EmptyReferencePicksFirst ==
    \A k \in Done :
        Base(readings, Momenti[k]) = <<>> =>
            IF Remaining(k) = {}
            THEN Momenti[k] \notin DOMAIN picks
            ELSE /\ Momenti[k] \in DOMAIN picks
                 /\ \E i \in Remaining(k) :
                       /\ \A j \in Remaining(k) : i <= j
                       /\ picks[Momenti[k]].titolo = df[i].titolo
                       /\ df[i].titolo \in used

\* a moment without reference text selected the first of two rows of
\* different titles
C7_Witness ==
    \E k \in Done :
        /\ Base(readings, Momenti[k]) = <<>>
        /\ Momenti[k] \in DOMAIN picks
        /\ \E i, j \in Remaining(k) : df[i].titolo # df[j].titolo

\* C8: after every pass of the loop the titles selected so far are pairwise
\* distinct.
C8_PicksPairwiseDistinct ==
    \A m1, m2 \in DOMAIN picks :
        m1 # m2 => picks[m1].titolo # picks[m2].titolo

\* two moments have a pick, and the title of the first was a row of the
\* second
C8_Witness ==
    \E k1, k2 \in Done :
        /\ k1 < k2
        /\ Momenti[k1] \in DOMAIN picks
        /\ Momenti[k2] \in DOMAIN picks
        /\ \E i \in RowsOf(Momenti[k2], lower(season)) \cup RowsOf(Momenti[k2], "qualsiasi") :
              df[i].titolo = picks[Momenti[k1]].titolo

====
